---- MODULE Spec2Model ----
(***************************************************************************)
(* The timetable application's store (src/App.tsx): the history reducer    *)
(* `reducer` over HistoryState {past, present, future}, the application    *)
(* reducer `appReducer` over AppState, and the helpers they call.          *)
(*                                                                         *)
(* Strings that the code takes apart are sequences of their '_'-separated  *)
(* segments: the schedule key "c1_0_1" is <<"c1", "0", "1">> and the class *)
(* id "c1" is <<"c1">>, so that `${id}_` being a prefix of a key is        *)
(* decided the way String.startsWith decides it.                           *)
(*                                                                         *)
(* The file holds a second App component as well (from line 483): its      *)
(* reducer over a flat AppState with projects is projectReducer, further   *)
(* down, followed by the save effects of the two components.               *)
(***************************************************************************)
EXTENDS Integers, Sequences, FiniteSets, TLC

VARIABLES
    store,        \* the state held by useReducer (a HistoryState, or the AppState of the project store)
    lastType,     \* the type of the action dispatched last
    nDispatch,    \* how many actions have been dispatched
    validInputs,  \* every placement dispatched so far named an existing class and teacher
    log,          \* the schedules recorded since the history was last empty
    validPeriods, \* every placement dispatched so far was in a period of the settings of its time
    lastSlots,    \* the TimeSlot sequence computed last (`slots` of OPTIMIZE_SCHEDULE)
    incoming,     \* the untrusted project handed to deepMerge last (start-up or INIT)
    before,       \* the project store as it was when the last action was dispatched
    timeout,      \* the pending setTimeout of the save effect: <<>> or <<the store it will write>>
    saved,        \* the values written by localStorage.setItem, in order
    hasSelectedProject  \* the useState flag of that name

vars == <<store, lastType, nDispatch, validInputs, log, validPeriods, lastSlots, incoming,
          before, timeout, saved, hasSelectedProject>>

\* What the component holds besides the store.
effects == <<before, timeout, saved, hasSelectedProject>>

\* The specifications of the reducer alone do not follow the effects.
NoEffects ==
    /\ before = <<>>
    /\ timeout = <<>>
    /\ saved = <<>>
    /\ hasSelectedProject = FALSE

-----------------------------------------------------------------------------
(* Bounds of the exploration *)

\* Number of dispatches explored from each initial store.
MaxDispatch == 3

\* Largest totalLessons of the settings the optimizer is run on.
MaxOptLessons == 3

\* Largest totalLessons and lessonsBeforeBreak of the settings the time grid is
\* computed for.
MaxSlotLessons == 4

\* Number of dispatches explored on the project store.
MaxProjectDispatch == 5

\* Number of dispatches explored with the save effects.
MaxSaveDispatch == 3

\* Program constant (src/App.tsx:120).
HISTORY_LIMIT == 100

-----------------------------------------------------------------------------
(* Values *)

\* `null` as the data of a SET_LESSON payload.
Null == [null |-> TRUE]

\* The decimal digits, for the day and period segments of a key.
Digits == <<"0", "1", "2", "3", "4", "5", "6", "7", "8", "9">>

ToStr(n) == Digits[n + 1]

ParseInt(s) == CHOOSE n \in 0..9 : Digits[n + 1] = s

\* `${classId}_${day}_${period}`
Key(classId, day, period) == classId \o <<ToStr(day), ToStr(period)>>

\* key.startsWith(`${prefix}_`): the prefix's segments, then at least one more.
StartsWith(key, prefix) ==
    /\ Len(key) > Len(prefix)
    /\ SubSeq(key, 1, Len(prefix)) = prefix

\* { ...a, ...b } on objects (records are functions of their field names).
Spread(a, b) ==
    [k \in (DOMAIN a) \cup (DOMAIN b) |-> IF k \in DOMAIN b THEN b[k] ELSE a[k]]

\* The object `obj` without the keys in `gone` (delete obj[k]).
Without(obj, gone) == [k \in (DOMAIN obj) \ gone |-> obj[k]]

\* The last element of a non-empty sequence.
Last(s) == s[Len(s)]

EmptySchedule == [k \in {} |-> Null]

Lesson(teacherId) == [teacherId |-> teacherId, subject |-> "math"]

DEFAULT_STATE ==
    [ teachers |-> << [id |-> "t1", name |-> "T1", color |-> "c6"],
                      [id |-> "t2", name |-> "T2", color |-> "c10"] >>,
      classes  |-> << [id |-> <<"c1">>, name |-> "K1"],
                      [id |-> <<"c2">>, name |-> "K2"] >>,
      schedule |-> EmptySchedule,
      settings |-> [ lessonDuration |-> 45, breakDuration |-> 15,
                     lessonsBeforeBreak |-> 2, startTime |-> <<8, 0>>,
                     totalLessons |-> 6 ],
      design   |-> [ lesson |-> [borderWidth |-> 1, fontSize |-> 13],
                     break  |-> [borderWidth |-> 0] ],
      ui       |-> [ theme |-> "system", primaryColor |-> "#6366f1",
                     language |-> "ps" ],
      printDesign |-> [ title |-> "weekly", showLegend |-> TRUE, scale |-> 100 ] ]

-----------------------------------------------------------------------------
(* utils: calculateTimeSlots, runOptimization, deepMerge.                  *)
(* Their code is imported by src/App.tsx (line 7) and is not part of the   *)
(* sources at hand; they are written here from sections 4.1, 4.2 and 4.4   *)
(* of the specification.                                                   *)

\* "HH:MM" as <<hours, minutes>>, in minutes from midnight.
ParseTime(t) == t[1] * 60 + t[2]

\* SlotsFrom with a break after the last lesson too.
RECURSIVE SlotsFromTrailingBreak(_, _, _)
SlotsFromTrailingBreak(settings, n, time) ==
    IF n > settings.totalLessons THEN <<>>
    ELSE LET lessonEnd == time + settings.lessonDuration
             lesson == [isBreak |-> FALSE, period |-> n - 1,
                        start |-> time, end |-> lessonEnd]
             breakEnd == lessonEnd + settings.breakDuration
             break == [isBreak |-> TRUE, period |-> -1,
                       start |-> lessonEnd, end |-> breakEnd]
         IN  IF n % settings.lessonsBeforeBreak = 0
             THEN <<lesson, break>>
                      \o SlotsFromTrailingBreak(settings, n + 1, breakEnd)
             ELSE <<lesson>> \o SlotsFromTrailingBreak(settings, n + 1, lessonEnd)

\* The lesson slots from lesson number `n` (1-based) on, starting at minute
\* `time`; a break follows every lessonsBeforeBreak-th lesson but the last.
RECURSIVE SlotsFrom(_, _, _)
SlotsFrom(settings, n, time) ==
    IF n > settings.totalLessons THEN <<>>
    ELSE LET lessonEnd == time + settings.lessonDuration
             lesson == [isBreak |-> FALSE, period |-> n - 1,
                        start |-> time, end |-> lessonEnd]
             hasBreak == /\ n % settings.lessonsBeforeBreak = 0
                         /\ n < settings.totalLessons
             breakEnd == lessonEnd + settings.breakDuration
             break == [isBreak |-> TRUE, period |-> -1,
                       start |-> lessonEnd, end |-> breakEnd]
         IN  IF hasBreak
             THEN <<lesson, break>> \o SlotsFrom(settings, n + 1, breakEnd)
             ELSE <<lesson>> \o SlotsFrom(settings, n + 1, lessonEnd)

calculateTimeSlots(settings) ==
    LET raw == SlotsFrom(settings, 1, ParseTime(settings.startTime))
    IN  [i \in 1..Len(raw) |-> Spread(raw[i], [index |-> i - 1])]

\* The parts of a schedule key.
KeyClass(key) == SubSeq(key, 1, Len(key) - 2)
KeyDay(key) == ParseInt(key[Len(key) - 1])
KeyPeriod(key) == ParseInt(key[Len(key)])

\* The keys of `keys` in (day, period) order.
RECURSIVE SortKeys(_)
SortKeys(keys) ==
    IF keys = {} THEN <<>>
    ELSE LET first == CHOOSE k \in keys : \A o \in keys :
                          \/ KeyDay(k) < KeyDay(o)
                          \/ KeyDay(k) = KeyDay(o) /\ KeyPeriod(k) <= KeyPeriod(o)
         IN  <<first>> \o SortKeys(keys \ {first})

\* The periods of the lesson slots, in slot order (breaks are never assignable).
LessonPeriods(slots) ==
    LET lessons == SelectSeq(slots, LAMBDA s : ~s.isBreak)
    IN  [i \in 1..Len(lessons) |-> lessons[i].period]

\* The first element of the sequence `ps` that is in `ok`, or -1.
FirstIn(ps, ok) ==
    LET hits == SelectSeq(ps, LAMBDA p : p \in ok)
    IN  IF hits = <<>> THEN -1 ELSE Head(hits)

\* PlaceKey without the best-effort step: with no conflict-free slot the
\* placement goes to the first slot, filled or not.
PlaceKeyNoBestEffort(out, classId, key, lesson, periods) ==
    LET day == KeyDay(key)
        Free(p) == Key(classId, day, p) \notin DOMAIN out
        Conflict(p) == \E o \in DOMAIN out :
                          /\ KeyClass(o) # classId
                          /\ KeyDay(o) = day
                          /\ KeyPeriod(o) = p
                          /\ out[o].teacherId = lesson.teacherId
        all == {periods[i] : i \in 1..Len(periods)}
        clean == FirstIn(periods, {p \in all : Free(p) /\ ~Conflict(p)})
    IN  IF clean # -1 THEN Key(classId, day, clean)
        ELSE Key(classId, day, Head(periods))

\* Where the placement at `key` of class `classId` goes, given the output so far.
PlaceKey(out, classId, key, lesson, periods) ==
    LET day == KeyDay(key)
        Free(p) == Key(classId, day, p) \notin DOMAIN out
        Conflict(p) == \E o \in DOMAIN out :
                          /\ KeyClass(o) # classId
                          /\ KeyDay(o) = day
                          /\ KeyPeriod(o) = p
                          /\ out[o].teacherId = lesson.teacherId
        all == {periods[i] : i \in 1..Len(periods)}
        clean == FirstIn(periods, {p \in all : Free(p) /\ ~Conflict(p)})
        any == FirstIn(periods, {p \in all : Free(p)})
    IN  IF clean # -1 THEN Key(classId, day, clean)
        ELSE IF any # -1 THEN Key(classId, day, any)
        ELSE key

\* Place the pending placements `pending` (keys of `schedule`) of one class.
RECURSIVE PlaceClass(_, _, _, _, _)
PlaceClass(out, schedule, classId, pending, periods) ==
    IF pending = <<>> THEN out
    ELSE LET key == Head(pending)
             target == PlaceKey(out, classId, key, schedule[key], periods)
             next == [k \in (DOMAIN out) \cup {target} |->
                         IF k = target THEN schedule[key] ELSE out[k]]
         IN  PlaceClass(next, schedule, classId, Tail(pending), periods)

RECURSIVE PlaceClasses(_, _, _, _)
PlaceClasses(out, schedule, classes, periods) ==
    IF classes = <<>> THEN out
    ELSE LET classId == Head(classes).id
             pending == SortKeys({k \in DOMAIN schedule : KeyClass(k) = classId})
         IN  PlaceClasses(PlaceClass(out, schedule, classId, pending, periods),
                          schedule, Tail(classes), periods)

runOptimization(schedule, classes, slots) ==
    PlaceClasses(EmptySchedule, schedule, classes, LessonPeriods(slots))

\* A value of the wrong shape where an object is expected (null, a number, a
\* string).
Malformed == [malformed |-> TRUE]

\* The places of AppState that hold a nested object, merged field by field.
ObjectPaths ==
    { <<"settings">>, <<"design">>, <<"design", "lesson">>, <<"design", "break">>,
      <<"ui">>, <<"printDesign">> }

\* The collections, taken wholesale.
CollectionPaths == { <<"teachers">>, <<"classes">>, <<"schedule">> }

\* MergeAt merging the collections element by element, like the objects.
RECURSIVE MergeAtElementwise(_, _, _)
MergeAtElementwise(path, target, source) ==
    [f \in DOMAIN target |->
        IF f \notin DOMAIN source THEN target[f]
        ELSE IF Append(path, f) \in ObjectPaths /\ source[f] = Malformed
        THEN target[f]
        ELSE IF Append(path, f) \in ObjectPaths
        THEN MergeAtElementwise(Append(path, f), target[f], source[f])
        ELSE IF Append(path, f) \in CollectionPaths
        THEN Spread(target[f], source[f])
        ELSE source[f]]

\* The object at `path`: each field of the default, with the incoming value
\* where one of the right shape is supplied.
RECURSIVE MergeAt(_, _, _)
MergeAt(path, target, source) ==
    [f \in DOMAIN target |->
        IF f \notin DOMAIN source THEN target[f]
        ELSE IF Append(path, f) \in ObjectPaths /\ source[f] = Malformed
        THEN target[f]
        ELSE IF Append(path, f) \in ObjectPaths
        THEN MergeAt(Append(path, f), target[f], source[f])
        ELSE source[f]]

deepMerge(target, source) ==
    IF source = Malformed THEN target ELSE MergeAt(<<>>, target, source)

-----------------------------------------------------------------------------
(* appReducer (src/App.tsx:186-241), one definition per case.              *)

ADD_TEACHER(state, payload) ==
    [state EXCEPT !.teachers = Append(@, payload)]

UPDATE_TEACHER(state, payload) ==
    [state EXCEPT !.teachers =
        [i \in 1..Len(@) |-> IF @[i].id = payload.id THEN payload ELSE @[i]]]

DELETE_TEACHER(state, payload) ==
    LET newSchedT == Without(state.schedule,
                        {k \in DOMAIN state.schedule :
                            state.schedule[k].teacherId = payload})
    IN  [state EXCEPT
            !.teachers = SelectSeq(@, LAMBDA t : t.id # payload),
            !.schedule = newSchedT]

ADD_CLASS(state, payload) ==
    [state EXCEPT !.classes = Append(@, payload)]

UPDATE_CLASS(state, payload) ==
    [state EXCEPT !.classes =
        [i \in 1..Len(@) |-> IF @[i].id = payload.id THEN payload ELSE @[i]]]

DELETE_CLASS(state, payload) ==
    LET newSchedC == Without(state.schedule,
                        {k \in DOMAIN state.schedule : StartsWith(k, payload)})
    IN  [state EXCEPT
            !.classes = SelectSeq(@, LAMBDA c : c.id # payload),
            !.schedule = newSchedC]

UPDATE_SETTINGS(state, payload) ==
    [state EXCEPT !.settings = Spread(@, payload)]

UPDATE_DESIGN(state, payload) ==
    [state EXCEPT !.design = Spread(@, payload)]

UPDATE_PRINT_DESIGN(state, payload) ==
    [state EXCEPT !.printDesign = Spread(@, payload)]

UPDATE_UI(state, payload) ==
    [state EXCEPT !.ui = Spread(@, payload)]

SET_LESSON(state, payload) ==
    LET newSchedule ==
            IF payload.data = Null
            THEN Without(state.schedule, {payload.key})
            ELSE Spread(state.schedule,
                        [k \in {payload.key} |-> payload.data])
    IN  [state EXCEPT !.schedule = newSchedule]

\* MOVE_LESSON that never puts the target's placement back at fromKey.
MoveLessonOverwrite(state, payload) ==
    LET fromKey == payload.fromKey
        toKey == payload.toKey
        sched == state.schedule
    IN  IF fromKey \notin DOMAIN sched THEN state
        ELSE LET placed == Spread(sched, [k \in {toKey} |-> sched[fromKey]])
             IN  [state EXCEPT !.schedule = Without(placed, {fromKey})]

MOVE_LESSON(state, payload) ==
    LET fromKey == payload.fromKey
        toKey == payload.toKey
        sched == state.schedule
    IN  IF fromKey \notin DOMAIN sched THEN state
        ELSE LET itemToMove == sched[fromKey]
                 placed == Spread(sched, [k \in {toKey} |-> itemToMove])
                 schedCopy ==
                     IF toKey \in DOMAIN sched
                     THEN Spread(placed, [k \in {fromKey} |-> sched[toKey]])
                     ELSE Without(placed, {fromKey})
             IN  [state EXCEPT !.schedule = schedCopy]

OPTIMIZE_SCHEDULE(state) ==
    LET slots == calculateTimeSlots(state.settings)
        optimizedSchedule == runOptimization(state.schedule, state.classes, slots)
    IN  [state EXCEPT !.schedule = optimizedSchedule]

REPLACE_SCHEDULE(state, payload) ==
    [state EXCEPT !.schedule = payload]

appReducer(state, action) ==
    CASE action.type = "ADD_TEACHER" -> ADD_TEACHER(state, action.payload)
      [] action.type = "UPDATE_TEACHER" -> UPDATE_TEACHER(state, action.payload)
      [] action.type = "DELETE_TEACHER" -> DELETE_TEACHER(state, action.payload)
      [] action.type = "ADD_CLASS" -> ADD_CLASS(state, action.payload)
      [] action.type = "UPDATE_CLASS" -> UPDATE_CLASS(state, action.payload)
      [] action.type = "DELETE_CLASS" -> DELETE_CLASS(state, action.payload)
      [] action.type = "UPDATE_SETTINGS" -> UPDATE_SETTINGS(state, action.payload)
      [] action.type = "UPDATE_DESIGN" -> UPDATE_DESIGN(state, action.payload)
      [] action.type = "UPDATE_PRINT_DESIGN" ->
            UPDATE_PRINT_DESIGN(state, action.payload)
      [] action.type = "UPDATE_UI" -> UPDATE_UI(state, action.payload)
      [] action.type = "SET_LESSON" -> SET_LESSON(state, action.payload)
      [] action.type = "MOVE_LESSON" -> MOVE_LESSON(state, action.payload)
      [] action.type = "OPTIMIZE_SCHEDULE" -> OPTIMIZE_SCHEDULE(state)
      [] action.type = "REPLACE_SCHEDULE" -> REPLACE_SCHEDULE(state, action.payload)
      [] OTHER -> state

\* Whether appReducer hands back the very object it was given (`return state`,
\* lines 224 and 239); every other case builds a new object, equal or not.
ReturnsSameObject(state, action) ==
    \/ /\ action.type = "MOVE_LESSON"
       /\ action.payload.fromKey \notin DOMAIN state.schedule
    \/ action.type \notin
         {"ADD_TEACHER", "UPDATE_TEACHER", "DELETE_TEACHER", "ADD_CLASS",
          "UPDATE_CLASS", "DELETE_CLASS", "UPDATE_SETTINGS", "UPDATE_DESIGN",
          "UPDATE_PRINT_DESIGN", "UPDATE_UI", "SET_LESSON", "MOVE_LESSON",
          "OPTIMIZE_SCHEDULE", "REPLACE_SCHEDULE"}

-----------------------------------------------------------------------------
(* reducer (src/App.tsx:128-184) over HistoryState.                        *)

\* INIT merging the payload over the present of before instead of DEFAULT_STATE.
InitOverPresent(state, payload) ==
    [past |-> <<>>, present |-> deepMerge(state.present, payload), future |-> <<>>]

INIT(state, payload) ==
    LET safeState == deepMerge(DEFAULT_STATE, payload)
    IN  [past |-> <<>>, present |-> safeState, future |-> <<>>]

\* RESET_PROJECT taking ui from DEFAULT_STATE with the rest.
ResetDefaultUi(state) ==
    [ past |-> <<>>,
      future |-> <<>>,
      present |-> [DEFAULT_STATE EXCEPT
                      !.teachers = <<>>,
                      !.classes = <<>>,
                      !.schedule = EmptySchedule] ]

RESET_PROJECT(state) ==
    [ past |-> <<>>,
      future |-> <<>>,
      present |-> [DEFAULT_STATE EXCEPT
                      !.teachers = <<>>,
                      !.classes = <<>>,
                      !.schedule = EmptySchedule,
                      !.ui = state.present.ui] ]


\* UNDO pushing the undone schedule at the end of future.
UndoAppendsFuture(state) ==
    IF Len(state.past) = 0 THEN state
    ELSE [ past |-> SubSeq(state.past, 1, Len(state.past) - 1),
           present |-> [state.present EXCEPT !.schedule = Last(state.past)],
           future |-> Append(state.future, state.present.schedule) ]

\* UNDO without the test for an empty past.
UndoUnguarded(state) ==
    [ past |-> SubSeq(state.past, 1, Len(state.past) - 1),
      present |-> [state.present EXCEPT !.schedule =
                      IF state.past = <<>> THEN EmptySchedule ELSE Last(state.past)],
      future |-> <<state.present.schedule>> \o state.future ]

UNDO(state) ==
    IF Len(state.past) = 0 THEN state
    ELSE LET prevSchedule == state.past[Len(state.past)]
         IN  [ past |-> SubSeq(state.past, 1, Len(state.past) - 1),
               present |-> [state.present EXCEPT !.schedule = prevSchedule],
               future |-> <<state.present.schedule>> \o state.future ]


\* REDO rebuilding present from DEFAULT_STATE.
RedoFromDefault(state) ==
    IF Len(state.future) = 0 THEN state
    ELSE [ past |-> Append(state.past, state.present.schedule),
           present |-> [DEFAULT_STATE EXCEPT !.schedule = state.future[1]],
           future |-> Tail(state.future) ]

REDO(state) ==
    IF Len(state.future) = 0 THEN state
    ELSE LET nextSchedule == state.future[1]
         IN  [ past |-> Append(state.past, state.present.schedule),
               present |-> [state.present EXCEPT !.schedule = nextSchedule],
               future |-> Tail(state.future) ]


\* isUndoable without MOVE_LESSON in its list.
isUndoableNoMove(type) ==
    type \in {"SET_LESSON", "REPLACE_SCHEDULE", "OPTIMIZE_SCHEDULE"}

\* isUndoable without OPTIMIZE_SCHEDULE in its list.
isUndoableNoOptimize(type) ==
    type \in {"SET_LESSON", "MOVE_LESSON", "REPLACE_SCHEDULE"}

\* isUndoable taking every action for a schedule change.
isUndoableAll(type) == TRUE

isUndoable(type) ==
    type \in {"SET_LESSON", "MOVE_LESSON", "REPLACE_SCHEDULE", "OPTIMIZE_SCHEDULE"}


\* PushPast without the shift over the limit.
PushPastNoShift(past, schedule) == Append(past, schedule)

\* PushPast dropping the newest entry (pop) where the code drops the oldest (shift).
PushPastPop(past, schedule) ==
    LET updatedPast == Append(past, schedule)
    IN  IF Len(updatedPast) > HISTORY_LIMIT
        THEN SubSeq(updatedPast, 1, HISTORY_LIMIT)
        ELSE updatedPast

\* updatedPast: the schedule appended, the oldest entry shifted out over the limit.
PushPast(past, schedule) ==
    LET updatedPast == Append(past, schedule)
    IN  IF Len(updatedPast) > HISTORY_LIMIT THEN Tail(updatedPast) ELSE updatedPast


\* The default branch keeping future when it records.
ReduceDefaultKeepsFuture(state, action) ==
    LET newPresent == appReducer(state.present, action)
    IN  IF ReturnsSameObject(state.present, action) THEN state
        ELSE IF isUndoable(action.type)
        THEN [ past |-> PushPast(state.past, state.present.schedule),
               present |-> newPresent,
               future |-> state.future ]
        ELSE [state EXCEPT !.present = newPresent]

ReduceDefault(state, action) ==
    LET newPresent == appReducer(state.present, action)
    IN  IF ReturnsSameObject(state.present, action) THEN state
        ELSE IF isUndoable(action.type)
        THEN [ past |-> PushPast(state.past, state.present.schedule),
               present |-> newPresent,
               future |-> <<>> ]
        ELSE [state EXCEPT !.present = newPresent]

reducer(state, action) ==
    CASE action.type = "INIT" -> INIT(state, action.payload)
      [] action.type = "RESET_PROJECT" -> RESET_PROJECT(state)
      [] action.type = "UNDO" -> UNDO(state)
      [] action.type = "REDO" -> REDO(state)
      [] OTHER -> ReduceDefault(state, action)

-----------------------------------------------------------------------------
(* The inputs the dispatches draw from. *)

TeacherIds == {"t1", "t2"}

ClassIds == {<<"c1">>, <<"c2">>}

K1 == Key(<<"c1">>, 0, 0)
K2 == Key(<<"c1">>, 0, 1)
K3 == Key(<<"c2">>, 0, 0)

Keys == {K1, K2, K3}

\* t1 in both classes at period 0: a double booking.
SchedConflict == (K1 :> Lesson("t1")) @@ (K3 :> Lesson("t1"))

SchedMixed == (K2 :> Lesson("t2")) @@ (K3 :> Lesson("t1"))

NewTeachers == {[id |-> i, name |-> "N", color |-> "c1"] : i \in TeacherIds}

EditedTeachers == {[id |-> "t1", name |-> "E", color |-> "c2"]}

NewClasses == {[id |-> i, name |-> "N"] : i \in ClassIds}

EditedClasses == {[id |-> <<"c1">>, name |-> "E"]}

SettingsPayloads == {[totalLessons |-> 1], [lessonsBeforeBreak |-> 1]}

DesignPayloads == {[lesson |-> [borderWidth |-> 2, fontSize |-> 13]]}

PrintDesignPayloads == {[scale |-> 90]}

UiPayloads == {[theme |-> "dark"]}

SetLessonPayloads ==
    {[key |-> k, data |-> d] : k \in Keys, d \in {Null, Lesson("t1")}}

MovePayloads ==
    { [fromKey |-> K1, toKey |-> K2], [fromKey |-> K1, toKey |-> K1],
      [fromKey |-> K3, toKey |-> K1], [fromKey |-> K2, toKey |-> K3] }

ReplacePayloads == {SchedConflict, SchedMixed}

\* An imported or persisted project: the empty object, and a partial one.
EmptyPayload == [f \in {} |-> Null]

PartialPayload ==
    [schedule |-> SchedMixed, settings |-> [totalLessons |-> 4], ui |-> [language |-> "en"]]

InitPayloads == {EmptyPayload, PartialPayload}

\* What localStorage.getItem(STORAGE_KEY) can hold at start-up: nothing, or a
\* saved project.  The values JSON.parse rejects are in MergeLocalItems.
LocalItems ==
    { [kind |-> "absent"],
      [kind |-> "json", parsed |-> PartialPayload] }

-----------------------------------------------------------------------------
(* The store: useReducer(reducer, {}, initData) and its dispatches.        *)

\* initData keeping what JSON.parse returned, without the merge.
initDataUnmerged(local) ==
    IF local.kind = "json"
    THEN [past |-> <<>>, present |-> local.parsed, future |-> <<>>]
    ELSE [past |-> <<>>, present |-> DEFAULT_STATE, future |-> <<>>]

initData(local) ==
    IF local.kind = "json"
    THEN [past |-> <<>>, present |-> deepMerge(DEFAULT_STATE, local.parsed),
          future |-> <<>>]
    ELSE [past |-> <<>>, present |-> DEFAULT_STATE, future |-> <<>>]

\* The i-th of the schedules of one placement: each names another slot or
\* teacher, so no two of them are equal.
NthSchedule(i) ==
    LET n == i - 1
        classId == IF (n \div 36) % 2 = 0 THEN <<"c1">> ELSE <<"c2">>
        teacherId == IF n \div 72 = 0 THEN "t1" ELSE "t2"
    IN  Key(classId, (n \div 6) % 6, n % 6) :> Lesson(teacherId)

\* The store after the recorded edits `from`..`to`: REPLACE_SCHEDULE with the
\* i-th schedule of one placement, for each i in turn.
RECURSIVE Replay(_, _, _)
Replay(state, from, to) ==
    IF from > to THEN state
    ELSE IF Len(state.past) = from - 1
    THEN Replay(reducer(state, [type |-> "REPLACE_SCHEDULE",
                                payload |-> NthSchedule(from)]), from + 1, to)
    ELSE state

\* A fresh project after HISTORY_LIMIT - 1 recorded edits: one short of the limit.
FilledStore == Replay(initData([kind |-> "absent"]), 1, HISTORY_LIMIT - 1)

\* The schedules those edits found: the empty one, then each edit's result.
FilledLog ==
    [i \in 1..(HISTORY_LIMIT - 1) |->
        IF i = 1 THEN EmptySchedule ELSE NthSchedule(i - 1)]

\* What is known of the history at start-up.
InitialLog(s) ==
    IF s = FilledStore THEN [whole |-> TRUE, entries |-> FilledLog]
    ELSE [whole |-> TRUE, entries |-> <<>>]

Init ==
    /\ \E l \in LocalItems :
          /\ incoming = l
          /\ store = initData(l)
    /\ lastType = "none"
    /\ nDispatch = 0
    /\ validInputs = TRUE
    /\ log = InitialLog(store)
    /\ validPeriods = TRUE
    /\ lastSlots = <<>>
    /\ NoEffects

\* The ids in use.
TeacherIdsOf(state) == {state.teachers[i].id : i \in 1..Len(state.teachers)}

ClassIdsOf(state) == {state.classes[i].id : i \in 1..Len(state.classes)}

\* Every placement of `schedule` is of a class and a teacher of `state`.
Refers(state, schedule) ==
    \A k \in DOMAIN schedule :
        /\ KeyClass(k) \in ClassIdsOf(state)
        /\ schedule[k].teacherId \in TeacherIdsOf(state)

\* The action creates no placement of a class or teacher that `state` lacks.
InputValid(state, action) ==
    CASE action.type = "SET_LESSON" ->
            \/ action.payload.data = Null
            \/ Refers(state, [k \in {action.payload.key} |-> action.payload.data])
      [] action.type = "MOVE_LESSON" ->
            \/ action.payload.fromKey \notin DOMAIN state.schedule
            \/ /\ KeyClass(action.payload.toKey) \in ClassIdsOf(state)
               /\ action.payload.toKey \in DOMAIN state.schedule
                     => KeyClass(action.payload.fromKey) \in ClassIdsOf(state)
      [] action.type = "REPLACE_SCHEDULE" -> Refers(state, action.payload)
      [] action.type = "INIT" ->
            LET merged == deepMerge(DEFAULT_STATE, action.payload)
            IN  Refers(merged, merged.schedule)
      [] OTHER -> TRUE

\* Every key of `schedule` is of a period below settings.totalLessons.
InPeriods(state, schedule) ==
    \A k \in DOMAIN schedule : KeyPeriod(k) < state.settings.totalLessons

\* The action puts no placement in a period that the settings of `state` lack.
PeriodsValid(state, action) ==
    CASE action.type = "SET_LESSON" ->
            \/ action.payload.data = Null
            \/ InPeriods(state, [k \in {action.payload.key} |-> action.payload.data])
      [] action.type = "MOVE_LESSON" ->
            \/ action.payload.fromKey \notin DOMAIN state.schedule
            \/ InPeriods(state, [k \in {action.payload.toKey} |-> Null])
      [] action.type = "REPLACE_SCHEDULE" -> InPeriods(state, action.payload)
      [] action.type = "INIT" ->
            LET merged == deepMerge(DEFAULT_STATE, action.payload)
            IN  InPeriods(merged, merged.schedule)
      [] OTHER -> TRUE

\* The action is one the reducer records: an undoable one for which appReducer
\* builds a new present.
Recorded(state, action) ==
    /\ isUndoable(action.type)
    /\ ~ReturnsSameObject(state.present, action)

\* The log after `action` is dispatched on `state`: INIT and RESET_PROJECT
\* empty the history, a recorded action adds the schedule it found, and an
\* UNDO or REDO that takes effect ends the run of recorded actions.
NextLog(state, action) ==
    CASE action.type \in {"INIT", "RESET_PROJECT"} ->
            [whole |-> TRUE, entries |-> <<>>]
      [] action.type \in {"UNDO", "REDO"} ->
            IF reducer(state, action) = state THEN log
            ELSE [whole |-> FALSE, entries |-> <<>>]
      [] OTHER ->
            IF log.whole /\ Recorded(state, action)
            THEN [log EXCEPT !.entries = Append(@, state.present.schedule)]
            ELSE log

Dispatch(action) ==
    /\ store' = reducer(store, action)
    /\ lastType' = action.type
    /\ nDispatch' = nDispatch + 1
    /\ validInputs' = (validInputs /\ InputValid(store.present, action))
    /\ log' = NextLog(store, action)
    /\ validPeriods' = (validPeriods /\ PeriodsValid(store.present, action))
    /\ lastSlots' = IF action.type = "OPTIMIZE_SCHEDULE"
                    THEN calculateTimeSlots(store.present.settings)
                    ELSE lastSlots
    /\ incoming' = IF action.type = "INIT"
                   THEN [kind |-> "import", parsed |-> action.payload]
                   ELSE incoming
    /\ UNCHANGED effects

Undo ==
    /\ nDispatch < MaxDispatch
    /\ Dispatch([type |-> "UNDO"])

Redo ==
    /\ nDispatch < MaxDispatch
    /\ Dispatch([type |-> "REDO"])

Import ==
    /\ nDispatch < MaxDispatch
    /\ \E p \in InitPayloads : Dispatch([type |-> "INIT", payload |-> p])

ResetProject ==
    /\ nDispatch < MaxDispatch
    /\ Dispatch([type |-> "RESET_PROJECT"])

\* The forms give a new teacher or class an id of generateId(): one not in use.
AddTeacher ==
    /\ nDispatch < MaxDispatch
    /\ \E p \in NewTeachers :
        /\ \A i \in 1..Len(store.present.teachers) : store.present.teachers[i].id # p.id
        /\ Dispatch([type |-> "ADD_TEACHER", payload |-> p])

UpdateTeacher ==
    /\ nDispatch < MaxDispatch
    /\ \E p \in EditedTeachers : Dispatch([type |-> "UPDATE_TEACHER", payload |-> p])

DeleteTeacher ==
    /\ nDispatch < MaxDispatch
    /\ \E id \in TeacherIds : Dispatch([type |-> "DELETE_TEACHER", payload |-> id])

AddClass ==
    /\ nDispatch < MaxDispatch
    /\ \E p \in NewClasses :
        /\ \A i \in 1..Len(store.present.classes) : store.present.classes[i].id # p.id
        /\ Dispatch([type |-> "ADD_CLASS", payload |-> p])

UpdateClass ==
    /\ nDispatch < MaxDispatch
    /\ \E p \in EditedClasses : Dispatch([type |-> "UPDATE_CLASS", payload |-> p])

DeleteClass ==
    /\ nDispatch < MaxDispatch
    /\ \E id \in ClassIds : Dispatch([type |-> "DELETE_CLASS", payload |-> id])

UpdateSettings ==
    /\ nDispatch < MaxDispatch
    /\ \E p \in SettingsPayloads : Dispatch([type |-> "UPDATE_SETTINGS", payload |-> p])

UpdateDesign ==
    /\ nDispatch < MaxDispatch
    /\ \E p \in DesignPayloads : Dispatch([type |-> "UPDATE_DESIGN", payload |-> p])

UpdatePrintDesign ==
    /\ nDispatch < MaxDispatch
    /\ \E p \in PrintDesignPayloads :
        Dispatch([type |-> "UPDATE_PRINT_DESIGN", payload |-> p])

UpdateUi ==
    /\ nDispatch < MaxDispatch
    /\ \E p \in UiPayloads : Dispatch([type |-> "UPDATE_UI", payload |-> p])

SetLesson ==
    /\ nDispatch < MaxDispatch
    /\ \E p \in SetLessonPayloads : Dispatch([type |-> "SET_LESSON", payload |-> p])

MoveLesson ==
    /\ nDispatch < MaxDispatch
    /\ \E p \in MovePayloads : Dispatch([type |-> "MOVE_LESSON", payload |-> p])

OptimizeSchedule ==
    /\ nDispatch < MaxDispatch
    /\ Dispatch([type |-> "OPTIMIZE_SCHEDULE"])

ReplaceSchedule ==
    /\ nDispatch < MaxDispatch
    /\ \E p \in ReplacePayloads : Dispatch([type |-> "REPLACE_SCHEDULE", payload |-> p])

Next ==
    \/ Undo
    \/ Redo
    \/ Import
    \/ ResetProject
    \/ AddTeacher
    \/ UpdateTeacher
    \/ DeleteTeacher
    \/ AddClass
    \/ UpdateClass
    \/ DeleteClass
    \/ UpdateSettings
    \/ UpdateDesign
    \/ UpdatePrintDesign
    \/ UpdateUi
    \/ SetLesson
    \/ MoveLesson
    \/ OptimizeSchedule
    \/ ReplaceSchedule

Spec == Init /\ [][Next]_vars

\* The same dispatches, from a history one entry short of HISTORY_LIMIT.
InitFull ==
    /\ incoming = [kind |-> "absent"]
    /\ store = FilledStore
    /\ lastType = "none"
    /\ nDispatch = 0
    /\ validInputs = TRUE
    /\ log = InitialLog(store)
    /\ validPeriods = TRUE
    /\ lastSlots = <<>>
    /\ NoEffects

SpecFull == InitFull /\ [][Next]_vars

-----------------------------------------------------------------------------
(* The actions a dispatch can carry, by kind. *)


\* P holds of every undoable action the dispatches draw from.
ForAllUndoable(P(_)) ==
    /\ \A p \in SetLessonPayloads : P([type |-> "SET_LESSON", payload |-> p])
    /\ \A p \in MovePayloads : P([type |-> "MOVE_LESSON", payload |-> p])
    /\ \A p \in ReplacePayloads : P([type |-> "REPLACE_SCHEDULE", payload |-> p])
    /\ P([type |-> "OPTIMIZE_SCHEDULE"])

\* P holds of every other action that appReducer handles.
ForAllNonUndoable(P(_)) ==
    /\ \A p \in NewTeachers : P([type |-> "ADD_TEACHER", payload |-> p])
    /\ \A p \in EditedTeachers : P([type |-> "UPDATE_TEACHER", payload |-> p])
    /\ \A p \in TeacherIds : P([type |-> "DELETE_TEACHER", payload |-> p])
    /\ \A p \in NewClasses : P([type |-> "ADD_CLASS", payload |-> p])
    /\ \A p \in EditedClasses : P([type |-> "UPDATE_CLASS", payload |-> p])
    /\ \A p \in ClassIds : P([type |-> "DELETE_CLASS", payload |-> p])
    /\ \A p \in SettingsPayloads : P([type |-> "UPDATE_SETTINGS", payload |-> p])
    /\ \A p \in DesignPayloads : P([type |-> "UPDATE_DESIGN", payload |-> p])
    /\ \A p \in PrintDesignPayloads :
          P([type |-> "UPDATE_PRINT_DESIGN", payload |-> p])
    /\ \A p \in UiPayloads : P([type |-> "UPDATE_UI", payload |-> p])

NonUndoableTypes ==
    {"ADD_TEACHER", "UPDATE_TEACHER", "DELETE_TEACHER", "ADD_CLASS",
     "UPDATE_CLASS", "DELETE_CLASS", "UPDATE_SETTINGS", "UPDATE_DESIGN",
     "UPDATE_PRINT_DESIGN", "UPDATE_UI"}

-----------------------------------------------------------------------------
(* Properties *)

\* C1: in every reachable state past holds at most HISTORY_LIMIT schedules,
\* whatever actions were dispatched.
C1_PastBounded == Len(store.past) <= HISTORY_LIMIT

\* The limit was reached and a further recorded edit shifted the oldest entry
\* (the empty schedule of the fresh project) out.
C1_Witness ==
    /\ Len(store.past) = HISTORY_LIMIT
    /\ isUndoable(lastType)
    /\ store.past[1] # EmptySchedule

\* C2 as stated: every action handled by appReducer that changes the content
\* of present.schedule leaves the pre-action schedule as the last element of
\* past.
C2_EveryScheduleChangeRecorded ==
    [][ ( /\ lastType' \in NonUndoableTypes \cup {"SET_LESSON", "MOVE_LESSON",
                              "REPLACE_SCHEDULE", "OPTIMIZE_SCHEDULE"}
          /\ store'.present.schedule # store.present.schedule )
        => ( /\ store'.past # <<>>
             /\ Last(store'.past) = store.present.schedule ) ]_vars

\* C2 as amended: a SET_LESSON, MOVE_LESSON, REPLACE_SCHEDULE or
\* OPTIMIZE_SCHEDULE that changes the content of present.schedule leaves the
\* pre-action schedule as the last element of past, and a following UNDO
\* restores it; DELETE_TEACHER and DELETE_CLASS prune the schedule and leave
\* past as it was.
C2_UndoableScheduleChangeRecorded ==
    /\ ForAllUndoable(LAMBDA a :
          LET r == reducer(store, a)
          IN  r.present.schedule # store.present.schedule
                => /\ r.past # <<>>
                   /\ Last(r.past) = store.present.schedule
                   /\ reducer(r, [type |-> "UNDO"]).present.schedule
                         = store.present.schedule)
    /\ ForAllNonUndoable(LAMBDA a :
          a.type \in {"DELETE_TEACHER", "DELETE_CLASS"}
             => reducer(store, a).past = store.past)

\* A move was recorded: the schedule before it is the last entry of past.
C2_Witness ==
    /\ lastType = "MOVE_LESSON"
    /\ store.past # <<>>
    /\ Last(store.past) # store.present.schedule
    /\ store.present.schedule # EmptySchedule

\* C3: as long as every placement dispatched named an existing class and
\* teacher, every key of present.schedule is of a class in present.classes and
\* every placement's teacherId is the id of a teacher in present.teachers.
C3_NoDanglingReference == validInputs => Refers(store.present, store.present.schedule)

\* C4: for every undoable action that is recorded, UNDO right after it yields
\* the schedule that was present before the action, at the bound too.
C4_UndoRestoresPrior ==
    ForAllUndoable(LAMBDA a :
        ~ReturnsSameObject(store.present, a)
           => reducer(reducer(store, a), [type |-> "UNDO"]).present.schedule
                 = store.present.schedule)

\* past was at the bound, one more edit was recorded, and UNDO was dispatched.
C4_Witness ==
    /\ lastType = "UNDO"
    /\ Len(store.past) = HISTORY_LIMIT - 1
    /\ store.past[1] # EmptySchedule
    /\ store.future # <<>>

\* C5: with past non-empty UNDO then REDO gives back the whole HistoryState,
\* and with future non-empty REDO then UNDO gives it back.
C5_UndoRedoRoundTrip ==
    /\ store.past # <<>>
         => reducer(reducer(store, [type |-> "UNDO"]), [type |-> "REDO"]) = store
    /\ store.future # <<>>
         => reducer(reducer(store, [type |-> "REDO"]), [type |-> "UNDO"]) = store

\* A REDO after two UNDOs: past and future both hold entries.
C5_Witness ==
    /\ lastType = "REDO"
    /\ store.past # <<>>
    /\ store.future # <<>>

\* C6 as stated: after any undoable action is dispatched future is empty and
\* REDO changes nothing.
C6_FutureEmptyAfterUndoable ==
    isUndoable(lastType)
       => /\ store.future = <<>>
          /\ reducer(store, [type |-> "REDO"]) = store

\* C6 as amended: after SET_LESSON, REPLACE_SCHEDULE, OPTIMIZE_SCHEDULE, and
\* MOVE_LESSON from an occupied slot, future is empty and REDO changes nothing,
\* whatever the state before; MOVE_LESSON from an empty slot returns the
\* HistoryState as it was, future included.
C6_FutureEmptyAfterRecordedEdit ==
    ForAllUndoable(LAMBDA a :
        LET r == reducer(store, a)
        IN  IF a.type = "MOVE_LESSON"
               /\ a.payload.fromKey \notin DOMAIN store.present.schedule
            THEN r = store
            ELSE /\ r.future = <<>>
                 /\ reducer(r, [type |-> "REDO"]) = r)

\* A MOVE_LESSON dispatched after an UNDO that left future as it was.
C6_Witness ==
    /\ lastType = "MOVE_LESSON"
    /\ store.future # <<>>

\* C7: an undoable action that leaves the content of the schedule unchanged
\* leaves past and future unchanged.
C7_NoRecordWithoutChange ==
    [][ ( /\ isUndoable(lastType')
          /\ store'.present.schedule = store.present.schedule )
        => ( /\ store'.past = store.past
             /\ store'.future = store.future ) ]_vars

\* C8: UNDO with past empty and REDO with future empty return the
\* HistoryState unchanged.
C8_EmptyStackNoOp ==
    /\ store.past = <<>> => reducer(store, [type |-> "UNDO"]) = store
    /\ store.future = <<>> => reducer(store, [type |-> "REDO"]) = store

\* UNDO was dispatched on an empty past: nothing moved to future.
C8_Witness ==
    /\ lastType = "UNDO"
    /\ store.past = <<>>
    /\ store.future = <<>>
    /\ store.present.schedule # EmptySchedule

\* C9: UNDO and REDO leave teachers, classes, settings, design, ui and
\* printDesign of present as they were.
C9_UndoRedoOnlySchedule ==
    \A t \in {"UNDO", "REDO"} :
        LET r == reducer(store, [type |-> t])
        IN  /\ DOMAIN r.present = DOMAIN store.present
            /\ \A f \in (DOMAIN store.present) \ {"schedule"} :
                  r.present[f] = store.present[f]

\* An UNDO that took effect in a project whose teachers and ui had been edited.
C9_Witness ==
    /\ lastType = "UNDO"
    /\ store.future # <<>>
    /\ store.present.ui # DEFAULT_STATE.ui
    /\ store.present.teachers # DEFAULT_STATE.teachers

\* C10: every non-undoable action leaves past and future as they were.
C10_NonUndoableKeepsHistory ==
    ForAllNonUndoable(LAMBDA a :
        LET r == reducer(store, a)
        IN  /\ r.past = store.past
            /\ r.future = store.future)

\* A teacher was deleted while past and future both held entries.
C10_Witness ==
    /\ lastType = "DELETE_TEACHER"
    /\ store.past # <<>>
    /\ store.future # <<>>
    /\ Len(store.present.teachers) < Len(DEFAULT_STATE.teachers)

-----------------------------------------------------------------------------
(* The bounded history: which entries stay. *)

\* The last `n` elements of the sequence `s`, in order.
LastN(s, n) == IF Len(s) <= n THEN s ELSE SubSeq(s, Len(s) - n + 1, Len(s))

\* C11: after any number of consecutive recorded actions starting from the
\* empty history, past is the last HISTORY_LIMIT of the pre-action schedules,
\* oldest first; after HISTORY_LIMIT + 1 or more of them with distinct
\* schedules past holds HISTORY_LIMIT entries and the very first schedule is
\* not among them.
C11_PastIsLastHundred ==
    log.whole =>
        /\ store.past = LastN(log.entries, HISTORY_LIMIT)
        /\ ( /\ Len(log.entries) > HISTORY_LIMIT
             /\ \A i \in 2..Len(log.entries) : log.entries[i] # log.entries[1] )
           => /\ Len(store.past) = HISTORY_LIMIT
              /\ \A i \in 1..Len(store.past) : store.past[i] # log.entries[1]

\* HISTORY_LIMIT + 1 actions were recorded in a row, all on different schedules.
C11_Witness ==
    /\ log.whole
    /\ isUndoable(lastType)
    /\ Len(log.entries) = HISTORY_LIMIT + 1
    /\ \A i, j \in 1..Len(log.entries) : i # j => log.entries[i] # log.entries[j]

-----------------------------------------------------------------------------
(* The schedule and the settings. *)

\* C12: as long as every placement dispatched was in a period of the settings
\* of its time, every key of present.schedule has a period index below the
\* current settings.totalLessons, also after UPDATE_SETTINGS lowers
\* totalLessons and after UNDO and REDO.
C12_PeriodsWithinTotalLessons ==
    validPeriods => InPeriods(store.present, store.present.schedule)

-----------------------------------------------------------------------------
(* The optimizer in the history. *)

\* C13: OPTIMIZE_SCHEDULE leaves the schedule it found as the last element of
\* past, makes present.schedule the optimizer's output for that schedule, the
\* current classes and the slots of the current settings, and an UNDO right
\* after it restores the schedule it found.
C13_OptimizeRecordsPrior ==
    LET r == reducer(store, [type |-> "OPTIMIZE_SCHEDULE"])
        slots == calculateTimeSlots(store.present.settings)
    IN  /\ r.past # <<>>
        /\ Last(r.past) = store.present.schedule
        /\ r.present.schedule =
              runOptimization(store.present.schedule, store.present.classes, slots)
        /\ reducer(r, [type |-> "UNDO"]).present.schedule = store.present.schedule

\* The optimizer moved a placement and the schedule before it was recorded.
C13_Witness ==
    /\ lastType = "OPTIMIZE_SCHEDULE"
    /\ store.past # <<>>
    /\ store.present.schedule # EmptySchedule
    /\ Last(store.past) # store.present.schedule
    /\ Last(store.past) # EmptySchedule

-----------------------------------------------------------------------------
(* The optimizer on its own: OPTIMIZE_SCHEDULE dispatched on projects drawn  *)
(* from bounded sets of schedules, class lists and settings.                 *)

OptClasses ==
    { DEFAULT_STATE.classes,
      Append(DEFAULT_STATE.classes, [id |-> <<"c3">>, name |-> "K3"]) }

\* One day, two periods, three classes, and one slot of a second day.
OptKeys ==
    {Key(<<c>>, 0, p) : c \in {"c1", "c2", "c3"}, p \in 0..1}
        \cup {Key(<<"c1">>, 1, 0)}

OptSchedules ==
    UNION {[K -> {Lesson(t) : t \in TeacherIds}] : K \in SUBSET OptKeys}

OptSettings ==
    {[DEFAULT_STATE.settings EXCEPT !.totalLessons = n, !.lessonsBeforeBreak = b] :
        n \in 1..MaxOptLessons, b \in 1..2}

InitOptimize ==
    /\ \E schedule \in OptSchedules, classes \in OptClasses, settings \in OptSettings :
          store = [ past |-> <<>>,
                    present |-> [DEFAULT_STATE EXCEPT !.schedule = schedule,
                                                      !.classes = classes,
                                                      !.settings = settings],
                    future |-> <<>> ]
    /\ lastType = "none"
    /\ nDispatch = 0
    /\ validInputs = Refers(store.present, store.present.schedule)
    /\ log = [whole |-> TRUE, entries |-> <<>>]
    /\ validPeriods = InPeriods(store.present, store.present.schedule)
    /\ lastSlots = <<>>
    /\ NoEffects
    /\ incoming = [kind |-> "absent"]

NextOptimize == OptimizeSchedule

SpecOptimize == InitOptimize /\ [][NextOptimize]_vars

\* The placements of `schedule` as a multiset: how many entries class
\* `classId` has with the lesson data `lesson`.
Count(schedule, classId, lesson) ==
    Cardinality({k \in DOMAIN schedule :
                    KeyClass(k) = classId /\ schedule[k] = lesson})

\* C14: when every key of the schedule handed to the optimizer is of an
\* existing class, the output has as many entries as the input and the same
\* multiset of (class, lesson data) placements.
C14_OptimizeConserves ==
    ( /\ lastType = "OPTIMIZE_SCHEDULE"
      /\ \A k \in DOMAIN Last(store.past) : KeyClass(k) \in ClassIdsOf(store.present) )
    => LET in == Last(store.past)
           out == store.present.schedule
       IN  /\ Cardinality(DOMAIN out) = Cardinality(DOMAIN in)
           /\ \A c \in ClassIdsOf(store.present), t \in TeacherIds :
                 Count(out, c, Lesson(t)) = Count(in, c, Lesson(t))
           /\ \A k \in DOMAIN out : KeyClass(k) \in ClassIdsOf(store.present)

\* The optimizer relocated placements of a class that has no conflict-free
\* slot left, and dropped none.
C14_Witness ==
    /\ lastType = "OPTIMIZE_SCHEDULE"
    /\ Last(store.past) # store.present.schedule
    /\ Cardinality(DOMAIN store.present.schedule) = 5
    /\ \A k \in DOMAIN Last(store.past) : KeyClass(k) \in ClassIdsOf(store.present)
    /\ \A k \in DOMAIN store.present.schedule :
          store.present.schedule[k].teacherId = "t1"

\* The (day, period, teacher) triples at which `schedule` has the teacher in
\* two different classes.
Conflicts(schedule) ==
    { <<KeyDay(k), KeyPeriod(k), schedule[k].teacherId>> :
        k \in { a \in DOMAIN schedule :
                  \E b \in DOMAIN schedule :
                      /\ KeyClass(a) # KeyClass(b)
                      /\ KeyDay(a) = KeyDay(b)
                      /\ KeyPeriod(a) = KeyPeriod(b)
                      /\ schedule[a].teacherId = schedule[b].teacherId } }

\* C15: for every input that names existing classes and teachers and periods
\* of the settings, the optimizer's output has at most as many (slot, teacher)
\* conflicts as the input, and every placement it relocated sits in a lesson
\* slot, none in a break.
C15_OptimizeNeverWorsens ==
    ( /\ lastType = "OPTIMIZE_SCHEDULE"
      /\ validInputs
      /\ validPeriods )
    => LET in == Last(store.past)
           out == store.present.schedule
       IN  /\ Cardinality(Conflicts(out)) <= Cardinality(Conflicts(in))
           /\ \A k \in (DOMAIN out) \ (DOMAIN in) :
                 \E i \in 1..Len(lastSlots) :
                     /\ ~lastSlots[i].isBreak
                     /\ lastSlots[i].period = KeyPeriod(k)

-----------------------------------------------------------------------------
(* The time grid on its own: calculateTimeSlots, as OPTIMIZE_SCHEDULE calls  *)
(* it, on settings drawn from a bounded set of valid TimeSettings.           *)

SlotSettings ==
    [ lessonDuration : {1, 45},
      breakDuration : {0, 15},
      lessonsBeforeBreak : 1..MaxSlotLessons,
      startTime : {<<8, 0>>, <<13, 30>>},
      totalLessons : 1..MaxSlotLessons ]

InitSlots ==
    /\ \E settings \in SlotSettings :
          store = [ past |-> <<>>,
                    present |-> [DEFAULT_STATE EXCEPT !.settings = settings],
                    future |-> <<>> ]
    /\ lastType = "none"
    /\ nDispatch = 0
    /\ validInputs = TRUE
    /\ log = [whole |-> TRUE, entries |-> <<>>]
    /\ validPeriods = TRUE
    /\ lastSlots = <<>>
    /\ NoEffects
    /\ incoming = [kind |-> "absent"]

NextSlots == OptimizeSchedule

SpecSlots == InitSlots /\ [][NextSlots]_vars

\* How many of the first `i` slots are lessons.
LessonsUpTo(i) == Cardinality({j \in 1..i : ~lastSlots[j].isBreak})

\* C16: the slots computed for the current settings hold exactly totalLessons
\* lessons; a break follows every lessonsBeforeBreak-th lesson that is not the
\* last, and stands nowhere else (so none when lessonsBeforeBreak >=
\* totalLessons); the first slot starts at startTime, each slot ends its
\* duration after its start, and each next slot starts where the one before
\* it ends.
C16_SlotsContiguous ==
    lastType = "OPTIMIZE_SCHEDULE"
    => LET settings == store.present.settings
           n == Len(lastSlots)
       IN  /\ LessonsUpTo(n) = settings.totalLessons
           /\ n - LessonsUpTo(n)
                 = (settings.totalLessons - 1) \div settings.lessonsBeforeBreak
           /\ settings.lessonsBeforeBreak >= settings.totalLessons
                 => \A i \in 1..n : ~lastSlots[i].isBreak
           /\ ~lastSlots[1].isBreak
           /\ ~lastSlots[n].isBreak
           /\ \A i \in 1..(n - 1) :
                 lastSlots[i + 1].isBreak <=>
                    /\ ~lastSlots[i].isBreak
                    /\ LessonsUpTo(i) % settings.lessonsBeforeBreak = 0
           /\ lastSlots[1].start
                 = settings.startTime[1] * 60 + settings.startTime[2]
           /\ \A i \in 1..n :
                 lastSlots[i].end = lastSlots[i].start +
                    (IF lastSlots[i].isBreak THEN settings.breakDuration
                                             ELSE settings.lessonDuration)
           /\ \A i \in 1..(n - 1) : lastSlots[i + 1].start = lastSlots[i].end

\* The scenario of four lessons with a break after every second one: five
\* slots, the third of them the break, the last ending at 11:15.
C16_Witness ==
    /\ lastType = "OPTIMIZE_SCHEDULE"
    /\ store.present.settings =
          [ lessonDuration |-> 45, breakDuration |-> 15, lessonsBeforeBreak |-> 2,
            startTime |-> <<8, 0>>, totalLessons |-> 4 ]
    /\ Len(lastSlots) = 5
    /\ lastSlots[3].isBreak
    /\ lastSlots[3].start = 9 * 60 + 30
    /\ lastSlots[5].end = 11 * 60 + 15

-----------------------------------------------------------------------------
(* The reconciler on its own: start-up and INIT on projects drawn from a    *)
(* bounded set of persisted or imported payloads.                           *)

\* A project that differs from DEFAULT_STATE in every field.
AltState ==
    [ teachers |-> << [id |-> "t9", name |-> "A", color |-> "c3"] >>,
      classes  |-> << [id |-> <<"c9">>, name |-> "A"] >>,
      schedule |-> Key(<<"c9">>, 0, 0) :> Lesson("t9"),
      settings |-> [ lessonDuration |-> 30, breakDuration |-> 5,
                     lessonsBeforeBreak |-> 3, startTime |-> <<9, 0>>,
                     totalLessons |-> 4 ],
      design   |-> [ lesson |-> [borderWidth |-> 2, fontSize |-> 10],
                     break  |-> [borderWidth |-> 1] ],
      ui       |-> [ theme |-> "dark", primaryColor |-> "#000000",
                     language |-> "en" ],
      printDesign |-> [ title |-> "alt", showLegend |-> FALSE, scale |-> 90 ] ]

\* Payloads: every choice of top-level fields, objects that lack fields (as a
\* project saved under an older schema does), and values of the wrong shape.
MergePayloads ==
    {Without(AltState, gone) : gone \in SUBSET DOMAIN AltState}
        \cup { PartialPayload,
               [design |-> [lesson |-> [borderWidth |-> 2]]],
               [settings |-> [totalLessons |-> 4], teachers |-> <<>>],
               [settings |-> Malformed, teachers |-> AltState.teachers],
               [schedule |-> SchedConflict, design |-> [break |-> Malformed]],
               Malformed }

\* What localStorage.getItem(STORAGE_KEY) can hold at start-up: nothing, the
\* empty string, text that JSON.parse rejects, text whose merge throws, and
\* JSON text.
MergeLocalItems ==
    {[kind |-> k] : k \in {"absent", "empty", "corrupt", "unmergeable"}}
        \cup {[kind |-> "json", parsed |-> p] : p \in MergePayloads}

InitMerge ==
    /\ \E l \in MergeLocalItems :
          /\ incoming = l
          /\ store = initData(l)
    /\ lastType = "none"
    /\ nDispatch = 0
    /\ validInputs = TRUE
    /\ log = [whole |-> TRUE, entries |-> <<>>]
    /\ validPeriods = TRUE
    /\ lastSlots = <<>>
    /\ NoEffects

\* handleImportProject on any of the payloads.
ImportProject ==
    /\ nDispatch < MaxDispatch
    /\ \E p \in MergePayloads : Dispatch([type |-> "INIT", payload |-> p])

NextMerge == ImportProject

SpecMerge == InitMerge /\ [][NextMerge]_vars

\* `source` supplies every field of `target`, each of the right shape.
RECURSIVE Covers(_, _, _)
Covers(path, target, source) ==
    /\ DOMAIN source = DOMAIN target
    /\ \A f \in DOMAIN target :
          /\ Append(path, f) \in ObjectPaths
                => /\ source[f] # Malformed
                   /\ Covers(Append(path, f), target[f], source[f])

\* C17: the merge of DEFAULT_STATE with the empty object is DEFAULT_STATE; the
\* merge with a payload that supplies every field in the right shape is that
\* payload; and teachers, classes and schedule, where a payload supplies
\* them, are the payload's, not merged element by element.
C17_MergeEmptyAndFull ==
    incoming.kind \in {"json", "import"}
    => LET payload == incoming.parsed
       IN  /\ payload = EmptyPayload => store.present = DEFAULT_STATE
           /\ ( payload # Malformed /\ Covers(<<>>, DEFAULT_STATE, payload) )
                 => store.present = payload
           /\ payload # Malformed
                 => \A f \in {"teachers", "classes", "schedule"} :
                       f \in DOMAIN payload => store.present[f] = payload[f]

\* A full project was imported over another one.
C17_Witness ==
    /\ lastType = "INIT"
    /\ incoming.kind = "import"
    /\ incoming.parsed = AltState
    /\ store.present = AltState
    /\ Len(store.present.teachers) < Len(DEFAULT_STATE.teachers)

\* C18: at start-up, when the persisted payload is absent or fails to parse
\* or to merge, the HistoryState is {past: empty, present: DEFAULT_STATE,
\* future: empty}; when it parses, past and future are empty and present is
\* the merge of DEFAULT_STATE with the parsed payload: every field of
\* DEFAULT_STATE is there, also for a payload of the wrong shape.
C18_StartUpFallsBack ==
    nDispatch = 0
    => /\ store.past = <<>>
       /\ store.future = <<>>
       /\ incoming.kind # "json" => store.present = DEFAULT_STATE
       /\ incoming.kind = "json"
             => /\ store.present = deepMerge(DEFAULT_STATE, incoming.parsed)
                /\ DOMAIN store.present = DOMAIN DEFAULT_STATE
                /\ \A f \in {"settings", "ui", "printDesign", "design"} :
                      DOMAIN store.present[f] = DOMAIN DEFAULT_STATE[f]

\* Start-up on a persisted project of the wrong shape in places.
C18_Witness ==
    /\ nDispatch = 0
    /\ incoming.kind = "json"
    /\ incoming.parsed # Malformed
    /\ "settings" \in DOMAIN incoming.parsed
    /\ incoming.parsed.settings = Malformed
    /\ store.present.settings = DEFAULT_STATE.settings
    /\ store.present.teachers # DEFAULT_STATE.teachers

-----------------------------------------------------------------------------
(* Deletion on its own: DELETE_TEACHER and DELETE_CLASS on loaded projects  *)
(* whose class ids include one that, followed by '_', starts another.       *)

\* The class "c1_x": its keys start with "c1_".
ClassC1X == <<"c1", "x">>

DeleteClassLists ==
    { DEFAULT_STATE.classes,
      Append(DEFAULT_STATE.classes, [id |-> ClassC1X, name |-> "KX"]) }

DeleteKeys ==
    {Key(<<"c1">>, 0, 0), Key(<<"c1">>, 0, 1), Key(<<"c2">>, 0, 0), Key(ClassC1X, 0, 0)}

DeleteSchedules ==
    UNION {[K -> {Lesson(t) : t \in TeacherIds}] : K \in SUBSET DeleteKeys}

InitDelete ==
    /\ \E schedule \in DeleteSchedules, classes \in DeleteClassLists :
          /\ incoming = [kind |-> "json",
                         parsed |-> [schedule |-> schedule, classes |-> classes]]
          /\ store = initData(incoming)
    /\ lastType = "none"
    /\ nDispatch = 0
    /\ validInputs = Refers(store.present, store.present.schedule)
    /\ log = [whole |-> TRUE, entries |-> <<>>]
    /\ validPeriods = TRUE
    /\ lastSlots = <<>>
    /\ NoEffects

NextDelete ==
    \/ DeleteTeacher
    \/ DeleteClass

SpecDelete == InitDelete /\ [][NextDelete]_vars

\* C19: on a project whose placements are all of existing classes and
\* teachers, a DELETE_TEACHER(id) step leaves in present.schedule exactly the
\* entries whose teacherId is not id, and a DELETE_CLASS(id) step exactly the
\* entries whose key's class is not id, each entry as it was, whatever the
\* class ids are.
C19_DeleteRemovesExactly ==
    [][ LET schedule == store.present.schedule
        IN  Refers(store.present, schedule)
            => /\ \A id \in TeacherIds :
                     ( /\ lastType' = "DELETE_TEACHER"
                       /\ store' = reducer(store, [type |-> "DELETE_TEACHER",
                                                   payload |-> id]) )
                     => store'.present.schedule
                          = [k \in {o \in DOMAIN schedule :
                                       schedule[o].teacherId # id}
                                |-> schedule[k]]
               /\ \A id \in ClassIds :
                     ( /\ lastType' = "DELETE_CLASS"
                       /\ store' = reducer(store, [type |-> "DELETE_CLASS",
                                                   payload |-> id]) )
                     => store'.present.schedule
                          = [k \in {o \in DOMAIN schedule : KeyClass(o) # id}
                                |-> schedule[k]] ]_vars

-----------------------------------------------------------------------------
(* A new project. *)

\* C20: RESET_PROJECT, from any state, yields an empty past and future, no
\* teachers, classes or placements, the ui of before, and the settings,
\* design and printDesign of DEFAULT_STATE; UNDO and REDO right after it
\* change nothing.
C20_ResetProject ==
    LET r == reducer(store, [type |-> "RESET_PROJECT"])
    IN  /\ r.past = <<>>
        /\ r.future = <<>>
        /\ r.present.teachers = <<>>
        /\ r.present.classes = <<>>
        /\ r.present.schedule = EmptySchedule
        /\ r.present.ui = store.present.ui
        /\ r.present.settings = DEFAULT_STATE.settings
        /\ r.present.design = DEFAULT_STATE.design
        /\ r.present.printDesign = DEFAULT_STATE.printDesign
        /\ DOMAIN r.present = DOMAIN DEFAULT_STATE
        /\ reducer(r, [type |-> "UNDO"]) = r
        /\ reducer(r, [type |-> "REDO"]) = r

\* A project with its own ui was reset.
C20_Witness ==
    /\ lastType = "RESET_PROJECT"
    /\ store.present.ui # DEFAULT_STATE.ui
    /\ store.present.teachers = <<>>
    /\ store.past = <<>>

-----------------------------------------------------------------------------
(* Moving a placement: MOVE_LESSON on every schedule over Keys.            *)

MoveSchedules ==
    UNION {[K -> {Lesson(t) : t \in TeacherIds}] : K \in SUBSET Keys}

AllMovePayloads == {[fromKey |-> f, toKey |-> t] : f \in Keys, t \in Keys}

InitMove ==
    /\ \E schedule \in MoveSchedules :
          /\ incoming = [kind |-> "json", parsed |-> [schedule |-> schedule]]
          /\ store = initData(incoming)
    /\ lastType = "none"
    /\ nDispatch = 0
    /\ validInputs = TRUE
    /\ log = [whole |-> TRUE, entries |-> <<>>]
    /\ validPeriods = TRUE
    /\ lastSlots = <<>>
    /\ NoEffects

MoveAnyLesson ==
    /\ nDispatch < MaxDispatch
    /\ \E p \in AllMovePayloads : Dispatch([type |-> "MOVE_LESSON", payload |-> p])

NextMove == MoveAnyLesson

SpecMove == InitMove /\ [][NextMove]_vars

\* C22: MOVE_LESSON(fromKey, toKey) on a schedule with a placement at fromKey
\* puts that placement at toKey and the placement that was at toKey, if
\* any, at fromKey, which is otherwise left empty; every other key keeps
\* its placement and the number of placements is the same.
C22_MoveLessonSwaps ==
    \A p \in AllMovePayloads :
        LET s == store.present.schedule
            r == reducer(store, [type |-> "MOVE_LESSON",
                                 payload |-> p]).present.schedule
        IN  p.fromKey \in DOMAIN s
            => /\ p.toKey \in DOMAIN r
               /\ r[p.toKey] = s[p.fromKey]
               /\ IF p.toKey \in DOMAIN s
                  THEN p.fromKey \in DOMAIN r /\ r[p.fromKey] = s[p.toKey]
                  ELSE p.fromKey \notin DOMAIN r
               /\ \A k \in (DOMAIN s \cup DOMAIN r) \ {p.fromKey, p.toKey} :
                     /\ k \in DOMAIN s
                     /\ k \in DOMAIN r
                     /\ r[k] = s[k]
               /\ Cardinality(DOMAIN r) = Cardinality(DOMAIN s)

\* Two placements of different teachers were swapped, a third left alone.
C22_Witness ==
    /\ lastType = "MOVE_LESSON"
    /\ store.past # <<>>
    /\ LET found == Last(store.past)
           moved == store.present.schedule
       IN  /\ DOMAIN found = Keys
           /\ DOMAIN moved = Keys
           /\ found[K1] # found[K2]
           /\ moved[K1] = found[K2]
           /\ moved[K2] = found[K1]
           /\ moved[K3] = found[K3]

-----------------------------------------------------------------------------
(* The two stacks together. *)

\* C23: in every reachable state past and future together hold at most
\* HISTORY_LIMIT schedules, and neither UNDO nor REDO changes how many they
\* hold together.
C23_PastPlusFutureBounded ==
    LET sum(h) == Len(h.past) + Len(h.future)
    IN  /\ sum(store) <= HISTORY_LIMIT
        /\ sum(reducer(store, [type |-> "UNDO"])) = sum(store)
        /\ sum(reducer(store, [type |-> "REDO"])) = sum(store)

\* A REDO that took effect brought past back to the limit: an edit at
\* HISTORY_LIMIT - 1 entries, its UNDO, and the REDO.
C23_Witness ==
    /\ lastType = "REDO"
    /\ ~log.whole
    /\ Len(store.past) = HISTORY_LIMIT
    /\ store.future = <<>>

-----------------------------------------------------------------------------
(* Importing a project. *)

\* C24: INIT(payload), from any state, yields an empty past and future and
\* the present that the same INIT yields on a fresh store, the merge of the
\* payload over DEFAULT_STATE: nothing of the state before is in the result.
C24_InitForgets ==
    \A p \in InitPayloads :
        LET r == reducer(store, [type |-> "INIT", payload |-> p])
            fresh == [past |-> <<>>, present |-> DEFAULT_STATE, future |-> <<>>]
        IN  /\ r.past = <<>>
            /\ r.future = <<>>
            /\ r.present = deepMerge(DEFAULT_STATE, p)
            /\ r = reducer(fresh, [type |-> "INIT", payload |-> p])

\* An import after the settings were changed and the optimizer had run on
\* them: the settings of before are gone, and so is the history.
C24_Witness ==
    /\ lastType = "INIT"
    /\ lastSlots # <<>>
    /\ lastSlots # calculateTimeSlots(store.present.settings)
    /\ store.past = <<>>
    /\ store.future = <<>>

-----------------------------------------------------------------------------
(* The project store: the second App component of src/App.tsx (from line   *)
(* 483), whose reducer works on a flat AppState that holds the projects.   *)
(* Its DEFAULT_STATE and reducer carry the names of the first component's; *)
(* they are PROJECT_DEFAULT_STATE and projectReducer here.                 *)

\* `null` as an id (activeProjectId, currentScheduleId).
NoId == "null"

\* `undefined` as the optional description of a project.
NoDescription == "undefined"

PROJECT_DEFAULT_STATE ==
    [ teachers |-> << [id |-> "t1", name |-> "T1", color |-> "c6"],
                      [id |-> "t2", name |-> "T2", color |-> "c10"],
                      [id |-> "t3", name |-> "T3", color |-> "c14"] >>,
      classes |-> << [id |-> "c1", name |-> "K1"], [id |-> "c2", name |-> "K2"] >>,
      lessons |-> <<>>,
      timeSettings |->
          [ days |-> 6, periodsPerDay |-> 6, periodDuration |-> 45,
            startTime |-> <<8, 0>>,
            breaks |-> << [afterPeriod |-> 2, duration |-> 15, label |-> "break"],
                          [afterPeriod |-> 4, duration |-> 30, label |-> "noon"] >>,
            weekStartDay |-> 6,
            customDayNames |-> [d \in 0..6 |-> <<"day", ToStr(d)>>] ],
      designSettings |->
          [ showTeacherName |-> TRUE, showSubject |-> TRUE, showRoom |-> FALSE,
            showTime |-> TRUE, fontScale |-> 1, colorScheme |-> "modern",
            compactMode |-> FALSE, showBreaks |-> TRUE, headerColor |-> "#4f46e5",
            tableBorderColor |-> "#e2e8f0", fontFamily |-> "Vazirmatn" ],
      printSettings |->
          [ paperSize |-> "a4", orientation |-> "landscape", showHeader |-> TRUE,
            showFooter |-> TRUE, headerText |-> "header", footerText |-> "footer",
            scale |-> 1, colorMode |-> "color", includeTeachersList |-> TRUE,
            includeClassesList |-> TRUE ],
      ui |->
          [ theme |-> "system", language |-> "ps", sidebarCollapsed |-> FALSE,
            activeTab |-> "dashboard", primaryColor |-> "indigo",
            direction |-> "rtl", showHeader |-> TRUE, showFooter |-> TRUE ],
      schedules |-> <<>>,
      currentScheduleId |-> NoId,
      activeProjectId |-> NoId,
      projects |-> <<>> ]

\* The part of the AppState that belongs to the active project.
WorkingData(state) ==
    [ teachers |-> state.teachers,
      classes |-> state.classes,
      lessons |-> state.lessons,
      timeSettings |-> state.timeSettings,
      designSettings |-> state.designSettings ]

\* { ...state, teachers: data.teachers, ..., designSettings: data.designSettings }
WithWorkingData(state, data) ==
    [state EXCEPT !.teachers = data.teachers,
                  !.classes = data.classes,
                  !.lessons = data.lessons,
                  !.timeSettings = data.timeSettings,
                  !.designSettings = data.designSettings]

\* array.filter / array.find on the projects.
ProjectIdsOf(projects) == {projects[i].id : i \in 1..Len(projects)}

FindProject(projects, id) ==
    LET hits == SelectSeq(projects, LAMBDA q : q.id = id)
    IN  IF hits = <<>> THEN <<>> ELSE <<Head(hits)>>

\* `env` is what the case reads from outside: generateId() and Date.now().
CREATE_PROJECT(state, payload, env) ==
    LET newProject ==
            [ id |-> env.id,
              name |-> payload.name,
              description |-> payload.description,
              createdAt |-> env.now,
              updatedAt |-> env.now,
              data |-> [ teachers |-> PROJECT_DEFAULT_STATE.teachers,
                         classes |-> PROJECT_DEFAULT_STATE.classes,
                         lessons |-> <<>>,
                         timeSettings |-> PROJECT_DEFAULT_STATE.timeSettings,
                         designSettings |-> PROJECT_DEFAULT_STATE.designSettings ] ]
    IN  [WithWorkingData(state, newProject.data)
            EXCEPT !.projects = Append(state.projects, newProject),
                   !.activeProjectId = newProject.id]

UPDATE_PROJECT(state, payload, env) ==
    [state EXCEPT !.projects =
        [i \in 1..Len(state.projects) |->
            IF state.projects[i].id = payload.id
            THEN [state.projects[i] EXCEPT !.name = payload.name,
                                           !.description = payload.description,
                                           !.updatedAt = env.now]
            ELSE state.projects[i]]]

\* DELETE_PROJECT keeping the working data of the deleted active project.
DeleteProjectKeepsWorking(state, payload) ==
    LET remainingProjects == SelectSeq(state.projects, LAMBDA q : q.id # payload)
    IN  IF state.activeProjectId = payload /\ remainingProjects # <<>>
        THEN [state EXCEPT !.projects = remainingProjects,
                           !.activeProjectId = remainingProjects[1].id]
        ELSE IF state.activeProjectId = payload
        THEN PROJECT_DEFAULT_STATE
        ELSE [state EXCEPT !.projects = remainingProjects]

DELETE_PROJECT(state, payload) ==
    LET remainingProjects == SelectSeq(state.projects, LAMBDA q : q.id # payload)
        nextProjectId == IF Len(remainingProjects) > 0
                         THEN remainingProjects[1].id ELSE NoId
    IN  IF state.activeProjectId = payload
        THEN IF nextProjectId # NoId
             THEN LET nextProject == remainingProjects[1]
                  IN  [WithWorkingData(state, nextProject.data)
                          EXCEPT !.projects = remainingProjects,
                                 !.activeProjectId = nextProjectId]
             ELSE [PROJECT_DEFAULT_STATE EXCEPT !.projects = <<>>,
                                                !.activeProjectId = NoId]
        ELSE [state EXCEPT !.projects = remainingProjects]

\* SET_ACTIVE_PROJECT without "Save current project state first".
SetActiveProjectUnsaved(state, payload, env) ==
    LET projectToLoad == FindProject(state.projects, payload)
    IN  IF projectToLoad = <<>> THEN state
        ELSE [WithWorkingData(state, projectToLoad[1].data)
                 EXCEPT !.activeProjectId = payload]

\* SET_ACTIVE_PROJECT taking any id, listed or not.
SetActiveProjectUnchecked(state, payload, env) ==
    LET projectToLoad == FindProject(state.projects, payload)
    IN  IF projectToLoad = <<>>
        THEN [state EXCEPT !.activeProjectId = payload]
        ELSE [WithWorkingData(state, projectToLoad[1].data)
                 EXCEPT !.activeProjectId = payload]

SET_ACTIVE_PROJECT(state, payload, env) ==
    LET projectToLoad == FindProject(state.projects, payload)
    IN  IF projectToLoad = <<>> THEN state
        ELSE LET updatedProjects ==
                     [i \in 1..Len(state.projects) |->
                         IF state.projects[i].id = state.activeProjectId
                         THEN [state.projects[i] EXCEPT
                                  !.updatedAt = env.now,
                                  !.data = WorkingData(state)]
                         ELSE state.projects[i]]
             IN  [WithWorkingData(state, projectToLoad[1].data)
                     EXCEPT !.projects = updatedProjects,
                            !.activeProjectId = payload]

projectReducer(state, action, env) ==
    CASE action.type = "SET_STATE" -> action.payload
      [] action.type = "UPDATE_TEACHERS" -> [state EXCEPT !.teachers = action.payload]
      [] action.type = "UPDATE_CLASSES" -> [state EXCEPT !.classes = action.payload]
      [] action.type = "UPDATE_LESSONS" -> [state EXCEPT !.lessons = action.payload]
      [] action.type = "UPDATE_TIME_SETTINGS" ->
            [state EXCEPT !.timeSettings = action.payload]
      [] action.type = "UPDATE_DESIGN_SETTINGS" ->
            [state EXCEPT !.designSettings = action.payload]
      [] action.type = "UPDATE_PRINT_SETTINGS" ->
            [state EXCEPT !.printSettings = action.payload]
      [] action.type = "UPDATE_UI_SETTINGS" ->
            [state EXCEPT !.ui = Spread(state.ui, action.payload)]
      [] action.type = "SET_ACTIVE_TAB" ->
            [state EXCEPT !.ui = Spread(state.ui, [activeTab |-> action.payload])]
      [] action.type = "SET_SCHEDULES" -> [state EXCEPT !.schedules = action.payload]
      [] action.type = "SET_CURRENT_SCHEDULE" ->
            [state EXCEPT !.currentScheduleId = action.payload]
      [] action.type = "CREATE_PROJECT" -> CREATE_PROJECT(state, action.payload, env)
      [] action.type = "UPDATE_PROJECT" -> UPDATE_PROJECT(state, action.payload, env)
      [] action.type = "DELETE_PROJECT" -> DELETE_PROJECT(state, action.payload)
      [] action.type = "SET_ACTIVE_PROJECT" ->
            SET_ACTIVE_PROJECT(state, action.payload, env)
      [] action.type = "IMPORT_PROJECT_DATA" -> Spread(state, action.payload)
      [] OTHER -> state

\* The reducer hands back the object it was given: React then renders nothing
\* and runs no effect.
ProjectReturnsState(state, action) ==
    \/ action.type \in {"ADD_TOAST", "REMOVE_TOAST"}
    \/ /\ action.type = "SET_ACTIVE_PROJECT"
       /\ FindProject(state.projects, action.payload) = <<>>

\* The ids generateId() hands out and the readings of Date.now().
ProjectIds == {"p1", "p2"}

Times == {1, 2}

ProjectPayloads == {[name |-> "A", description |-> NoDescription]}

ProjectEdits ==
    {[id |-> i, name |-> "B", description |-> "d"] : i \in ProjectIds}

TeacherLists == {<<[id |-> "t9", name |-> "N", color |-> "c1"]>>}

ClassLists == {<<[id |-> "c9", name |-> "N"]>>}

LessonLists == {<<[id |-> "l1", teacherId |-> "t1", classId |-> "c1"]>>}

TimeSettingsPayloads ==
    {[PROJECT_DEFAULT_STATE.timeSettings EXCEPT !.days = 5]}

DesignSettingsPayloads ==
    {[PROJECT_DEFAULT_STATE.designSettings EXCEPT !.compactMode = TRUE]}

\* Nothing saved yet: the initializer returns defaultState (lines 757-769).
InitProjects ==
    /\ store = PROJECT_DEFAULT_STATE
    /\ lastType = "none"
    /\ nDispatch = 0
    /\ validInputs = TRUE
    /\ log = [whole |-> TRUE, entries |-> <<>>]
    /\ validPeriods = TRUE
    /\ lastSlots = <<>>
    /\ incoming = [kind |-> "absent"]
    /\ NoEffects

DispatchProject(action, env) ==
    /\ store' = projectReducer(store, action, env)
    /\ lastType' = action.type
    /\ nDispatch' = nDispatch + 1
    /\ before' = store
    /\ UNCHANGED <<validInputs, log, validPeriods, lastSlots, incoming,
                   timeout, saved, hasSelectedProject>>

\* What an action that reads neither generateId() nor Date.now() is given.
NoEnv == [id |-> NoId, now |-> 0]

\* generateId() gives an id that no project has.
CreateProject ==
    /\ nDispatch < MaxProjectDispatch
    /\ \E p \in ProjectPayloads, id \in ProjectIds, now \in Times :
          /\ id \notin ProjectIdsOf(store.projects)
          /\ DispatchProject([type |-> "CREATE_PROJECT", payload |-> p],
                             [id |-> id, now |-> now])

UpdateProject ==
    /\ nDispatch < MaxProjectDispatch
    /\ \E p \in ProjectEdits, now \in Times :
          DispatchProject([type |-> "UPDATE_PROJECT", payload |-> p],
                          [id |-> NoId, now |-> now])

DeleteProject ==
    /\ nDispatch < MaxProjectDispatch
    /\ \E id \in ProjectIds :
          DispatchProject([type |-> "DELETE_PROJECT", payload |-> id], NoEnv)

SetActiveProject ==
    /\ nDispatch < MaxProjectDispatch
    /\ \E id \in ProjectIds, now \in Times :
          DispatchProject([type |-> "SET_ACTIVE_PROJECT", payload |-> id],
                          [id |-> NoId, now |-> now])

UpdateTeachers ==
    /\ nDispatch < MaxProjectDispatch
    /\ \E p \in TeacherLists :
          DispatchProject([type |-> "UPDATE_TEACHERS", payload |-> p], NoEnv)

UpdateClasses ==
    /\ nDispatch < MaxProjectDispatch
    /\ \E p \in ClassLists :
          DispatchProject([type |-> "UPDATE_CLASSES", payload |-> p], NoEnv)

UpdateLessons ==
    /\ nDispatch < MaxProjectDispatch
    /\ \E p \in LessonLists :
          DispatchProject([type |-> "UPDATE_LESSONS", payload |-> p], NoEnv)

UpdateTimeSettings ==
    /\ nDispatch < MaxProjectDispatch
    /\ \E p \in TimeSettingsPayloads :
          DispatchProject([type |-> "UPDATE_TIME_SETTINGS", payload |-> p], NoEnv)

UpdateDesignSettings ==
    /\ nDispatch < MaxProjectDispatch
    /\ \E p \in DesignSettingsPayloads :
          DispatchProject([type |-> "UPDATE_DESIGN_SETTINGS", payload |-> p], NoEnv)

NextProjects ==
    \/ CreateProject
    \/ UpdateProject
    \/ DeleteProject
    \/ SetActiveProject
    \/ UpdateTeachers
    \/ UpdateClasses
    \/ UpdateLessons
    \/ UpdateTimeSettings
    \/ UpdateDesignSettings

SpecProjects == InitProjects /\ [][NextProjects]_vars

-----------------------------------------------------------------------------
(* The active project. *)

\* C25: in every state of the project store reached from DEFAULT_STATE,
\* activeProjectId is null or the id of a project in projects, and
\* SET_ACTIVE_PROJECT with an id that no project has leaves the state as it is.
C25_ActiveProjectListed ==
    /\ \/ store.activeProjectId = NoId
       \/ store.activeProjectId \in ProjectIdsOf(store.projects)
    /\ \A id \in ProjectIds, now \in Times :
          id \notin ProjectIdsOf(store.projects)
          => projectReducer(store, [type |-> "SET_ACTIVE_PROJECT", payload |-> id],
                            [id |-> NoId, now |-> now]) = store

\* The active project was deleted and the remaining one took its place,
\* while the deleted id can no longer be made active.
C25_Witness ==
    /\ lastType = "DELETE_PROJECT"
    /\ before.activeProjectId # NoId
    /\ before.activeProjectId \notin ProjectIdsOf(store.projects)
    /\ store.activeProjectId \in ProjectIdsOf(store.projects)

-----------------------------------------------------------------------------
(* The working data of a project that stops being the active one. *)

\* The entry of project `id` in `state` holds `data`.
Holds(state, id, data) ==
    LET entry == FindProject(state.projects, id)
    IN  /\ entry # <<>>
        /\ entry[1].data = data

\* C26: whenever SET_ACTIVE_PROJECT or CREATE_PROJECT makes another project
\* than A the active one, A's entry in projects holds the teachers, classes,
\* lessons, timeSettings and designSettings that were the working data when
\* the action was dispatched.
C26_NoEditLostOnSwitch ==
    [][ LET A == store.activeProjectId
        IN  ( /\ lastType' \in {"SET_ACTIVE_PROJECT", "CREATE_PROJECT"}
              /\ A # NoId
              /\ store'.activeProjectId # A )
            => Holds(store', A, WorkingData(store)) ]_vars

-----------------------------------------------------------------------------
(* Switching to another project and back. *)

\* C27: with project A active, SET_ACTIVE_PROJECT to a project B in projects
\* and then SET_ACTIVE_PROJECT back to A gives the teachers, classes,
\* lessons, timeSettings and designSettings of before the first switch, with
\* A active again.
C27_SwitchRoundTrip ==
    LET A == store.activeProjectId
    IN  A # NoId
        => \A B \in ProjectIdsOf(store.projects), there \in Times, back \in Times :
              LET atB == projectReducer(store,
                             [type |-> "SET_ACTIVE_PROJECT", payload |-> B],
                             [id |-> NoId, now |-> there])
                  atA == projectReducer(atB,
                             [type |-> "SET_ACTIVE_PROJECT", payload |-> A],
                             [id |-> NoId, now |-> back])
              IN  /\ atB.activeProjectId = B
                  /\ atA.activeProjectId = A
                  /\ WorkingData(atA) = WorkingData(store)

\* Back at a project whose edited working data had been put into its entry
\* when the other project was made active.
C27_Witness ==
    /\ lastType = "SET_ACTIVE_PROJECT"
    /\ before.activeProjectId # NoId
    /\ store.activeProjectId # before.activeProjectId
    /\ WorkingData(store) # WorkingData(PROJECT_DEFAULT_STATE)
    /\ WorkingData(store) # WorkingData(before)
    /\ Holds(before, store.activeProjectId, WorkingData(store))
    /\ Holds(store, before.activeProjectId, WorkingData(before))

-----------------------------------------------------------------------------
(* Deleting a project. *)

-----------------------------------------------------------------------------
(* Saving to localStorage: the save effect of each App component.  A       *)
(* handler's dispatch, the render it causes and the effects of that render *)
(* are one step; the callback of a setTimeout is a step of its own.        *)

\* Which component is mounted: the first holds a HistoryState.
HoldsHistory(s) == "present" \in DOMAIN s

\* What the save effect of the mounted component serialises:
\* JSON.stringify(store.present) (line 348) or JSON.stringify(store) (816).
Snapshot(s) == IF HoldsHistory(s) THEN s.present ELSE s

\* reducer hands back `state` itself, so that store.present is the same object
\* and the effect's dependencies have not changed.
KeepsPresent(state, action) ==
    CASE action.type \in {"INIT", "RESET_PROJECT"} -> FALSE
      [] action.type = "UNDO" -> state.past = <<>>
      [] action.type = "REDO" -> state.future = <<>>
      [] OTHER -> ReturnsSameObject(state.present, action)

\* Either component is mounted, with nothing in localStorage.  The second
\* component's save effect runs after the first render and sets its timer.
InitSave ==
    /\ \/ /\ store = initData([kind |-> "absent"])
          /\ timeout = <<>>
       \/ /\ store = PROJECT_DEFAULT_STATE
          /\ timeout = <<store>>
    /\ hasSelectedProject = FALSE
    /\ saved = <<>>
    /\ before = <<>>
    /\ lastType = "none"
    /\ nDispatch = 0
    /\ validInputs = TRUE
    /\ log = [whole |-> TRUE, entries |-> <<>>]
    /\ validPeriods = TRUE
    /\ lastSlots = <<>>
    /\ incoming = [kind |-> "absent"]

\* First component: dispatch(action) with hasSelectedProject becoming
\* `selected`, and the effect of lines 346-350 after the render.
DispatchSaving(action, selected) ==
    /\ store' = reducer(store, action)
    /\ hasSelectedProject' = selected
    /\ saved' = IF /\ selected
                   /\ \/ ~KeepsPresent(store, action)
                      \/ ~hasSelectedProject
                THEN Append(saved, store'.present)
                ELSE saved
    /\ lastType' = action.type
    /\ nDispatch' = nDispatch + 1
    /\ UNCHANGED <<validInputs, log, validPeriods, lastSlots, incoming, before, timeout>>

\* The project selector is all that is rendered until a project is selected.
handleNewProject ==
    /\ HoldsHistory(store)
    /\ ~hasSelectedProject
    /\ nDispatch < MaxSaveDispatch
    /\ DispatchSaving([type |-> "RESET_PROJECT"], TRUE)

handleImportProject ==
    /\ HoldsHistory(store)
    /\ ~hasSelectedProject
    /\ nDispatch < MaxSaveDispatch
    /\ \E p \in InitPayloads : DispatchSaving([type |-> "INIT", payload |-> p], TRUE)

\* The pages, rendered once a project is selected, dispatch the edits.
EditLesson ==
    /\ HoldsHistory(store)
    /\ hasSelectedProject
    /\ nDispatch < MaxSaveDispatch
    /\ \E p \in SetLessonPayloads :
          DispatchSaving([type |-> "SET_LESSON", payload |-> p], TRUE)

EditUi ==
    /\ HoldsHistory(store)
    /\ hasSelectedProject
    /\ nDispatch < MaxSaveDispatch
    /\ \E p \in UiPayloads : DispatchSaving([type |-> "UPDATE_UI", payload |-> p], TRUE)

UndoEdit ==
    /\ HoldsHistory(store)
    /\ hasSelectedProject
    /\ nDispatch < MaxSaveDispatch
    /\ DispatchSaving([type |-> "UNDO"], TRUE)

\* Second component: dispatch(action) and, when the render has a new store,
\* the effect of lines 813-819: the cleanup of the one before clears its
\* timer, and a new timer is set for this store.
DispatchDebounced(action, env) ==
    /\ ~HoldsHistory(store)
    /\ nDispatch < MaxSaveDispatch
    /\ store' = projectReducer(store, action, env)
    /\ timeout' = IF ProjectReturnsState(store, action) THEN timeout ELSE <<store'>>
    /\ lastType' = action.type
    /\ nDispatch' = nDispatch + 1
    /\ UNCHANGED <<validInputs, log, validPeriods, lastSlots, incoming, before,
                   saved, hasSelectedProject>>

\* The timer's callback, 1000 ms after it was set.
TimeoutFires ==
    /\ timeout # <<>>
    /\ saved' = Append(saved, timeout[1])
    /\ timeout' = <<>>
    /\ UNCHANGED <<store, lastType, nDispatch, validInputs, log, validPeriods,
                   lastSlots, incoming, before, hasSelectedProject>>

StatePayloads == {[PROJECT_DEFAULT_STATE EXCEPT !.lessons = l] : l \in LessonLists}

PrintSettingsPayloads == {[PROJECT_DEFAULT_STATE.printSettings EXCEPT !.scale = 2]}

UiSettingsPayloads == {[theme |-> "dark"], [primaryColor |-> "rose"]}

Tabs == {"teachers"}

Toasts == {[type |-> "info", message |-> "m"]}

SchedulesPayloads == {<<[id |-> "s1", name |-> "S"]>>}

ImportPayloads == {[teachers |-> t, classes |-> c] : t \in TeacherLists, c \in ClassLists}

SetState ==
    \E p \in StatePayloads : DispatchDebounced([type |-> "SET_STATE", payload |-> p], NoEnv)

SaveCreateProject ==
    \E p \in ProjectPayloads, id \in ProjectIds, now \in Times :
        /\ ~HoldsHistory(store)
        /\ id \notin ProjectIdsOf(store.projects)
        /\ DispatchDebounced([type |-> "CREATE_PROJECT", payload |-> p],
                             [id |-> id, now |-> now])

SaveTeachers ==
    \E p \in TeacherLists :
        DispatchDebounced([type |-> "UPDATE_TEACHERS", payload |-> p], NoEnv)

SaveSetActiveProject ==
    \E id \in ProjectIds, now \in Times :
        DispatchDebounced([type |-> "SET_ACTIVE_PROJECT", payload |-> id],
                          [id |-> NoId, now |-> now])

UpdatePrintSettings ==
    \E p \in PrintSettingsPayloads :
        DispatchDebounced([type |-> "UPDATE_PRINT_SETTINGS", payload |-> p], NoEnv)

UpdateUiSettings ==
    \E p \in UiSettingsPayloads :
        DispatchDebounced([type |-> "UPDATE_UI_SETTINGS", payload |-> p], NoEnv)

SetActiveTab ==
    \E p \in Tabs : DispatchDebounced([type |-> "SET_ACTIVE_TAB", payload |-> p], NoEnv)

AddToast ==
    \E p \in Toasts : DispatchDebounced([type |-> "ADD_TOAST", payload |-> p], NoEnv)

SetSchedules ==
    \E p \in SchedulesPayloads :
        DispatchDebounced([type |-> "SET_SCHEDULES", payload |-> p], NoEnv)

SetCurrentSchedule ==
    \E p \in {"s1"} :
        DispatchDebounced([type |-> "SET_CURRENT_SCHEDULE", payload |-> p], NoEnv)

ImportProjectData ==
    \E p \in ImportPayloads :
        DispatchDebounced([type |-> "IMPORT_PROJECT_DATA", payload |-> p], NoEnv)

NextSave ==
    \/ handleNewProject
    \/ handleImportProject
    \/ EditLesson
    \/ EditUi
    \/ UndoEdit
    \/ SetState
    \/ SaveCreateProject
    \/ SaveTeachers
    \/ SaveSetActiveProject
    \/ UpdatePrintSettings
    \/ UpdateUiSettings
    \/ SetActiveTab
    \/ AddToast
    \/ SetSchedules
    \/ SetCurrentSchedule
    \/ ImportProjectData
    \/ TimeoutFires

\* A timer that is left pending fires.
SpecSave == InitSave /\ [][NextSave]_vars /\ WF_vars(TimeoutFires)

-----------------------------------------------------------------------------
(* Debounced persistence. *)

\* A write to localStorage is the callback of a save that was pending, not
\* part of the step that changes the state.
WritesAreDebounced ==
    [][ saved' # saved
        => /\ timeout # <<>>
           /\ timeout' = <<>>
           /\ store' = store ]_vars

\* The save that is pending is of the current state: a state change has
\* cancelled the one that was pending before it.
PendingSaveIsCurrent == [](timeout # <<>> => timeout[1] = Snapshot(store))

\* What is written is the state of the store at the moment of the write.
WritesAreCurrent ==
    [][ saved' # saved => Last(saved') = Snapshot(store') ]_vars

\* With no more state changes, the state of the store gets written and no
\* save stays pending.
LatestStateWritten ==
    <>[]( /\ timeout = <<>>
          /\ nDispatch > 0 => (saved # <<>> /\ Last(saved) = Snapshot(store)) )

\* C21: writes to localStorage are debounced and never stale: a write is made
\* by a save that was pending, a state change while a save is pending cancels
\* it, every value written is the state of the store at the moment of the
\* write, and once the state changes stop the latest state is written.
C21_DebouncedSave ==
    /\ WritesAreDebounced
    /\ PendingSaveIsCurrent
    /\ WritesAreCurrent
    /\ LatestStateWritten

====
